---- MODULE Spec2Model ----
(***************************************************************************)
(* StyleAura catalog backend (src/main.py): the three catalog handlers     *)
(* seed_products, list_products and get_product over the "clothingproduct" *)
(* collection of a document store.                                         *)
(*                                                                         *)
(* Conventions.  An Optional[T] is a set: {} is None, {x} is the value x.  *)
(* A str that is matched by pattern or parsed is a sequence of             *)
(* one-character strings; a str that is only compared for equality         *)
(* (category, size, color) is a TLA+ string.  Prices are in cents.         *)
(* A value of the store's identifier type is [type |-> "ObjectId",         *)
(* val |-> twelve bytes as 24 nibbles]; a string is [type |-> "str",       *)
(* val |-> characters].                                                    *)
(***************************************************************************)
EXTENDS Integers, Sequences, FiniteSets, TLC

\* db          the store handle of the process, None when not configured
\* store       the "clothingproduct" collection, in insertion order
\* nextOid     how many identifiers the store has generated, plus one
\* query       the query dict the request being answered built (EmptyQuery
\*             when it built none)
\* request     the last request: its operation and inputs
\* response    the answer to it
\* seedHistory for each seed call that reached the store, the record whose
\*             insert failed (0: none)
VARIABLES db, store, nextOid, query, request, response, seedHistory

vars == <<db, store, nextOid, query, request, response, seedHistory>>

\* ------------------------------------------------------------------ bounds
\* seed calls that reach the store in one behaviour
MaxSeeds == 2

\* seed calls behind the collection that the query specification starts from
QuerySeeds == 1

\* ------------------------------------------------------- Optional[T], text
None == {}

Some(x) == {x}

Val(o) == CHOOSE x \in o : TRUE

Range(s) == {s[i] : i \in 1..Len(s)}

Capitals == <<"A","B","C","D","E","F","G","H","I","J","K","L","M",
              "N","O","P","Q","R","S","T","U","V","W","X","Y","Z">>

Letters == <<"a","b","c","d","e","f","g","h","i","j","k","l","m",
             "n","o","p","q","r","s","t","u","v","w","x","y","z">>

HexDigits == <<"0","1","2","3","4","5","6","7","8","9","a","b","c","d","e","f">>

Chars == Range(Capitals) \cup Range(Letters) \cup Range(HexDigits)
         \cup {" ", "'", ",", "-", "."}

\* case folding of one character, as the "i" option compares
LowerTable == [c \in Chars |->
                 IF c \in Range(Capitals)
                 THEN Letters[CHOOSE i \in 1..26 : Capitals[i] = c]
                 ELSE c]

Lower(c) == LowerTable[c]

UpperTable == [c \in Chars |->
                 IF c \in Range(Letters)
                 THEN Capitals[CHOOSE i \in 1..26 : Letters[i] = c]
                 ELSE c]

UpperStr(s) == [i \in 1..Len(s) |-> UpperTable[s[i]]]

\* ------------------------------------------------------------ identifiers
\* an ObjectId is 12 bytes, written as 24 hexadecimal digits
OidLen == 24

HexValue(c) == (CHOOSE i \in 1..16 : HexDigits[i] = Lower(c)) - 1

IsHex(c) == Lower(c) \in Range(HexDigits)

\* ObjectId(product_id): accepts exactly the 24-digit hexadecimal strings,
\* in either case; anything else raises
ObjectIdValid(s) == Len(s) = OidLen /\ \A i \in 1..Len(s) : IsHex(s[i])

ObjectId(s) == [type |-> "ObjectId", val |-> [i \in 1..OidLen |-> HexValue(s[i])]]

\* str(oid): the lower-case hexadecimal rendering
Str(oid) == [type |-> "str", val |-> [i \in 1..Len(oid.val) |-> HexDigits[oid.val[i] + 1]]]

\* the n-th identifier the store generates: distinct for distinct n
NewObjectId(n) ==
  [type |-> "ObjectId",
   val  |-> [i \in 1..OidLen |->
               IF i = OidLen THEN n % 16
               ELSE IF i = OidLen - 1 THEN (n \div 16) % 16
               ELSE IF i % 2 = 1 THEN 10 ELSE 6]]

\* --------------------------------------------------------- sample products
sample_products ==
  << [title |-> <<"M","e","n","'","s"," ","C","l","a","s","s","i","c"," ","D","e","n","i","m"," ","J","a","c","k","e","t">>,
      description |-> <<"T","i","m","e","l","e","s","s"," ","d","e","n","i","m"," ","w","i","t","h"," ","a"," ","m","o","d","e","r","n"," ","f","i","t",".">>,
      price |-> 7999,
      category |-> "Men",
      images |-> <<"photo-1520975916090-3105956dac38">>,
      sizes |-> <<"S", "M", "L", "XL">>,
      colors |-> <<"Blue">>,
      rating |-> 46,
      discount_percent |-> 10,
      in_stock |-> TRUE,
      tags |-> << <<"j","a","c","k","e","t">>, <<"d","e","n","i","m">>, <<"m","e","n">> >>],
     [title |-> <<"W","o","m","e","n","'","s"," ","L","i","n","e","n"," ","S","u","m","m","e","r"," ","D","r","e","s","s">>,
      description |-> <<"B","r","e","a","t","h","a","b","l","e",","," ","e","l","e","g","a","n","t",","," ","a","n","d"," ","p","e","r","f","e","c","t"," ","f","o","r"," ","w","a","r","m"," ","d","a","y","s",".">>,
      price |-> 6450,
      category |-> "Women",
      images |-> <<"photo-1519238263530-99bdd11df2ea">>,
      sizes |-> <<"XS", "S", "M", "L">>,
      colors |-> <<"Beige", "Olive">>,
      rating |-> 47,
      discount_percent |-> 0,
      in_stock |-> TRUE,
      tags |-> << <<"d","r","e","s","s">>, <<"l","i","n","e","n">>, <<"w","o","m","e","n">> >>],
     [title |-> <<"U","n","i","s","e","x"," ","O","v","e","r","s","i","z","e","d"," ","H","o","o","d","i","e">>,
      description |-> <<"C","o","z","y"," ","f","l","e","e","c","e","-","l","i","n","e","d"," ","h","o","o","d","i","e"," ","f","o","r"," ","e","v","e","r","y","d","a","y"," ","c","o","m","f","o","r","t",".">>,
      price |-> 4900,
      category |-> "Accessories",
      images |-> <<"photo-1516826957135-700dedea698c">>,
      sizes |-> <<"S", "M", "L", "XL">>,
      colors |-> <<"Black", "Grey">>,
      rating |-> 44,
      discount_percent |-> 15,
      in_stock |-> TRUE,
      tags |-> << <<"h","o","o","d","i","e">>, <<"u","n","i","s","e","x">> >>] >>

\* a stored document: the inserted record plus the identifier the store gave it
WithId(p, id) ==
  [_id |-> id, title |-> p.title, description |-> p.description, price |-> p.price,
   category |-> p.category, images |-> p.images, sizes |-> p.sizes, colors |-> p.colors,
   rating |-> p.rating, discount_percent |-> p.discount_percent, in_stock |-> p.in_stock,
   tags |-> p.tags]

\* ---------------------------------------------------------- HTTP responses
Ok(body) == [status |-> 200, detail |-> "", body |-> body]

HTTPException(status_code, detail) == [status |-> status_code, detail |-> detail, body |-> <<>>]

\* an exception of the store that no handler catches
WriteError == [status |-> 500, detail |-> "WriteError", body |-> <<>>]

\* ------------------------------------------------------------ query builder
\* Python truthiness of an Optional[str] held as a TLA+ string
Truthy(o) == o /= None /\ Val(o) /= ""

\* Python truthiness of an Optional[str] held as a sequence of characters
TruthyText(o) == o /= None /\ Val(o) /= <<>>

EmptyQuery == [category |-> None, price |-> None, sizes |-> None, colors |-> None, or |-> None]

\* BuildQuery with the free-text disjunction replacing the other constraints
BuildQuery_TextReplaces(f) ==
  IF TruthyText(f.q)
  THEN [EmptyQuery EXCEPT !.or =
          Some(<< [field |-> "title", regex |-> Val(f.q), options |-> "i"],
                  [field |-> "description", regex |-> Val(f.q), options |-> "i"],
                  [field |-> "tags", regex |-> Val(f.q), options |-> "i"] >>)]
  ELSE [category |-> IF Truthy(f.category) THEN f.category ELSE None,
        price    |-> IF f.min_price /= None \/ f.max_price /= None
                     THEN Some([gte |-> f.min_price, lte |-> f.max_price])
                     ELSE None,
        sizes    |-> IF Truthy(f.size) THEN Some([in |-> <<Val(f.size)>>]) ELSE None,
        colors   |-> IF Truthy(f.color) THEN Some([in |-> <<Val(f.color)>>]) ELSE None,
        or       |-> None]

\* Python truthiness of an Optional[float]
TruthyNumber(o) == o /= None /\ Val(o) /= 0

\* BuildQuery testing the price bounds by truthiness: a bound of 0 is dropped
BuildQuery_TruthyBounds(f) ==
  [category |-> IF Truthy(f.category) THEN f.category ELSE None,
   price    |-> IF TruthyNumber(f.min_price) \/ TruthyNumber(f.max_price)
                THEN Some([gte |-> IF TruthyNumber(f.min_price) THEN f.min_price ELSE None,
                           lte |-> IF TruthyNumber(f.max_price) THEN f.max_price ELSE None])
                ELSE None,
   sizes    |-> IF Truthy(f.size) THEN Some([in |-> <<Val(f.size)>>]) ELSE None,
   colors   |-> IF Truthy(f.color) THEN Some([in |-> <<Val(f.color)>>]) ELSE None,
   or       |-> IF TruthyText(f.q)
                THEN Some(<< [field |-> "title", regex |-> Val(f.q), options |-> "i"],
                             [field |-> "description", regex |-> Val(f.q), options |-> "i"],
                             [field |-> "tags", regex |-> Val(f.q), options |-> "i"] >>)
                ELSE None]

\* BuildQuery testing the category against None: the empty string constrains
BuildQuery_CategoryNotNone(f) ==
  [category |-> IF f.category /= None THEN f.category ELSE None,
   price    |-> IF f.min_price /= None \/ f.max_price /= None
                THEN Some([gte |-> f.min_price, lte |-> f.max_price])
                ELSE None,
   sizes    |-> IF Truthy(f.size) THEN Some([in |-> <<Val(f.size)>>]) ELSE None,
   colors   |-> IF Truthy(f.color) THEN Some([in |-> <<Val(f.color)>>]) ELSE None,
   or       |-> IF TruthyText(f.q)
                THEN Some(<< [field |-> "title", regex |-> Val(f.q), options |-> "i"],
                             [field |-> "description", regex |-> Val(f.q), options |-> "i"],
                             [field |-> "tags", regex |-> Val(f.q), options |-> "i"] >>)
                ELSE None]

\* the query dict list_products builds; an absent key is None
BuildQuery(f) ==
  [category |-> IF Truthy(f.category) THEN f.category ELSE None,
   price    |-> IF f.min_price /= None \/ f.max_price /= None
                THEN Some([gte |-> f.min_price, lte |-> f.max_price])
                ELSE None,
   sizes    |-> IF Truthy(f.size) THEN Some([in |-> <<Val(f.size)>>]) ELSE None,
   colors   |-> IF Truthy(f.color) THEN Some([in |-> <<Val(f.color)>>]) ELSE None,
   or       |-> IF TruthyText(f.q)
                THEN Some(<< [field |-> "title", regex |-> Val(f.q), options |-> "i"],
                             [field |-> "description", regex |-> Val(f.q), options |-> "i"],
                             [field |-> "tags", regex |-> Val(f.q), options |-> "i"] >>)
                ELSE None]

\* ------------------------------------------------------------ store adapter
\* one pattern character against one text character under option "i";
\* "." is the pattern language's any-character, every other character of
\* Chars stands for itself
CharMatch(pc, c) == pc = "." \/ Lower(pc) = Lower(c)

\* an unanchored $regex: the pattern matches somewhere in the text
RegexSearch(pat, text) ==
  \E i \in 1..(Len(text) - Len(pat) + 1) :
    \A j \in 1..Len(pat) : CharMatch(pat[j], text[i + j - 1])

\* {"$in": [...]} on a list field: some element of the field is in the list
InMatch(field, list) == \E i \in 1..Len(field) : field[i] \in Range(list)

\* one clause of $or: a text field, or any element of a list of texts
ClauseMatch(d, c) ==
  CASE c.field = "title" -> RegexSearch(c.regex, d.title)
    [] c.field = "description" -> RegexSearch(c.regex, d.description)
    [] c.field = "tags" -> \E i \in 1..Len(d.tags) : RegexSearch(c.regex, d.tags[i])

\* the store's query semantics: the top-level keys of the query are ANDed
Matches(d, qy) ==
  /\ qy.category /= None => d.category = Val(qy.category)
  /\ qy.price /= None =>
       /\ Val(qy.price).gte /= None => d.price >= Val(Val(qy.price).gte)
       /\ Val(qy.price).lte /= None => d.price =< Val(Val(qy.price).lte)
  /\ qy.sizes /= None => InMatch(d.sizes, Val(qy.sizes).in)
  /\ qy.colors /= None => InMatch(d.colors, Val(qy.colors).in)
  /\ qy.or /= None => \E k \in 1..Len(Val(qy.or)) : ClauseMatch(d, Val(qy.or)[k])

Min(a, b) == IF a < b THEN a ELSE b

\* find-many-with-limit: at most limit matching documents, in store order
get_documents(coll, qy, limit) ==
  LET hits == SelectSeq(coll, LAMBDA d : Matches(d, qy))
  IN  SubSeq(hits, 1, Min(limit, Len(hits)))

\* insert-one: the store generates the identifier and appends the document
create_document(coll, next, p) ==
  [id |-> NewObjectId(next), coll |-> Append(coll, WithId(p, NewObjectId(next))), next |-> next + 1]

\* find_one({"_id": obj_id}): the first document with that identifier, or None
find_one(coll, oid) ==
  IF \E i \in 1..Len(coll) : coll[i]._id = oid
  THEN Some(coll[CHOOSE i \in 1..Len(coll) : coll[i]._id = oid /\ \A j \in 1..(i - 1) : coll[j]._id /= oid])
  ELSE None

\* ----------------------------------------------------------------- handlers
\* d["_id"] = str(d["_id"])
Normalise(d) == [d EXCEPT !._id = Str(d._id)]

\* d.get("_id"): the document has an identifier and it is truthy, as every
\* ObjectId is
HasId(d) == d._id.type = "ObjectId"

\* list_products without the check of db: the store call raises
list_products_NoGuard(dbh, coll, f, limit) ==
  IF dbh = None
  THEN HTTPException(500, "Database not configured")
  ELSE LET docs == get_documents(coll, BuildQuery(f), limit)
       IN  Ok([i \in 1..Len(docs) |-> IF HasId(docs[i]) THEN Normalise(docs[i]) ELSE docs[i]])

\* GET /products
list_products(dbh, coll, f, limit) ==
  IF dbh = None
  THEN Ok(<<>>)
  ELSE LET docs == get_documents(coll, BuildQuery(f), limit)
       IN  Ok([i \in 1..Len(docs) |-> IF HasId(docs[i]) THEN Normalise(docs[i]) ELSE docs[i]])

\* get_product answering an unparsable id like an unknown one
get_product_InvalidAsMissing(dbh, coll, product_id) ==
  IF dbh = None
  THEN HTTPException(500, "Database not configured")
  ELSE IF ~ObjectIdValid(product_id)
  THEN HTTPException(404, "Product not found")
  ELSE LET doc == find_one(coll, ObjectId(product_id))
       IN  IF doc = None
           THEN HTTPException(404, "Product not found")
           ELSE Ok(<<Normalise(Val(doc))>>)

\* get_product returning the id as the request wrote it
get_product_EchoId(dbh, coll, product_id) ==
  IF dbh = None
  THEN HTTPException(500, "Database not configured")
  ELSE IF ~ObjectIdValid(product_id)
  THEN HTTPException(400, "Invalid product id")
  ELSE LET doc == find_one(coll, ObjectId(product_id))
       IN  IF doc = None
           THEN HTTPException(404, "Product not found")
           ELSE Ok(<<[Val(doc) EXCEPT !._id = [type |-> "str", val |-> product_id]]>>)

\* GET /products/{product_id}
get_product(dbh, coll, product_id) ==
  IF dbh = None
  THEN HTTPException(500, "Database not configured")
  ELSE IF ~ObjectIdValid(product_id)
  THEN HTTPException(400, "Invalid product id")
  ELSE LET doc == find_one(coll, ObjectId(product_id))
       IN  IF doc = None
           THEN HTTPException(404, "Product not found")
           ELSE Ok(<<Normalise(Val(doc))>>)

\* the insert loop putting each new identifier in front of the earlier ones
RECURSIVE SeedLoop_Prepend(_, _, _, _, _)
SeedLoop_Prepend(i, coll, next, inserted_ids, failAt) ==
  IF i > Len(sample_products)
  THEN [response |-> Ok(inserted_ids), coll |-> coll, next |-> next]
  ELSE IF i = failAt
  THEN [response |-> WriteError, coll |-> coll, next |-> next]
  ELSE LET r == create_document(coll, next, sample_products[i])
       IN  SeedLoop_Prepend(i + 1, r.coll, r.next, <<r.id>> \o inserted_ids, failAt)

\* the insert loop removing the records of this call when an insert fails
RECURSIVE SeedLoop_Rollback(_, _, _, _, _)
SeedLoop_Rollback(i, coll, next, inserted_ids, failAt) ==
  IF i > Len(sample_products)
  THEN [response |-> Ok(inserted_ids), coll |-> coll, next |-> next]
  ELSE IF i = failAt
  THEN [response |-> WriteError, coll |-> SubSeq(coll, 1, Len(coll) - Len(inserted_ids)), next |-> next]
  ELSE LET r == create_document(coll, next, sample_products[i])
       IN  SeedLoop_Rollback(i + 1, r.coll, r.next, Append(inserted_ids, r.id), failAt)

\* the insert loop of seed_products from record i on; failAt is the record
\* whose insert raises (0: none does)
RECURSIVE SeedLoop(_, _, _, _, _)
SeedLoop(i, coll, next, inserted_ids, failAt) ==
  IF i > Len(sample_products)
  THEN [response |-> Ok(inserted_ids), coll |-> coll, next |-> next]
  ELSE IF i = failAt
  THEN [response |-> WriteError, coll |-> coll, next |-> next]
  ELSE LET r == create_document(coll, next, sample_products[i])
       IN  SeedLoop(i + 1, r.coll, r.next, Append(inserted_ids, r.id), failAt)

\* seed_products inserting nothing when the collection already has records
seed_products_SkipSeeded(dbh, coll, next, failAt) ==
  IF dbh = None
  THEN [response |-> HTTPException(500, "Database not configured"), coll |-> coll, next |-> next]
  ELSE IF coll /= <<>>
  THEN [response |-> Ok(<<>>), coll |-> coll, next |-> next]
  ELSE SeedLoop(1, coll, next, <<>>, failAt)

\* POST /seed
seed_products(dbh, coll, next, failAt) ==
  IF dbh = None
  THEN [response |-> HTTPException(500, "Database not configured"), coll |-> coll, next |-> next]
  ELSE SeedLoop(1, coll, next, <<>>, failAt)

\* ------------------------------------------------------------------- inputs
Filter(c, lo, hi, sz, co, q) ==
  [category |-> c, min_price |-> lo, max_price |-> hi, size |-> sz, color |-> co, q |-> q]

NoFilter == Filter(None, None, None, None, None, None)

qDENIM == <<"D","E","N","I","M">>

qDotNim == <<"d",".","n","i","m">>

qMen == <<"m","e","n">>

qNoHit == <<"s","i","l","k">>

Limits == {1, 50}

\* filters of the service specification
Filters ==
  {Filter(c, lo, None, None, co, q) :
     c \in {None, Some("Men")}, lo \in {None, Some(6450)},
     co \in {None, Some("Blue")}, q \in {None, Some(qMen)}}

\* filters of the query specification
AllLimits == {1, 2, 50, 200}

AllFilters ==
  {Filter(c, lo, hi, sz, co, q) :
     c \in {None, Some(""), Some("Men"), Some("Women")},
     lo \in {None, Some(0), Some(6450)},
     hi \in {None, Some(0), Some(6450)},
     sz \in {None, Some(""), Some("XS")},
     co \in {None, Some(""), Some("Black")},
     q \in {None, Some(<<>>), Some(qDENIM), Some(qDotNim), Some(qMen), Some(qNoHit)}}

\* identifier strings: the renderings of generated identifiers (one more than
\* the store can hold), their upper-case forms, and malformed strings
OidStrings == {Str(NewObjectId(n)).val : n \in 1..(Len(sample_products) * MaxSeeds + 1)}

BadChar(s) == [s EXCEPT ![Len(s)] = "g"]

ProductIds ==
  OidStrings \cup {UpperStr(s) : s \in OidStrings}
  \cup {<<>>, <<"a","b","c">>}
  \cup {BadChar(s) : s \in OidStrings}
  \cup {Append(s, "0") : s \in OidStrings}

\* ------------------------------------------------------------ specification
NoRequest == [op |-> "none"]

NoResponse == [status |-> 0, detail |-> "", body |-> <<>>]

Init ==
  /\ db \in {None, Some("styleaura")}
  /\ store = <<>>
  /\ nextOid = 1
  /\ query = EmptyQuery
  /\ request = NoRequest
  /\ response = NoResponse
  /\ seedHistory = <<>>

Seed ==
  \E failAt \in 0..Len(sample_products) :
    /\ Len(seedHistory) < MaxSeeds
    /\ LET r == seed_products(db, store, nextOid, failAt)
       IN  /\ store' = r.coll
           /\ nextOid' = r.next
           /\ response' = r.response
    /\ request' = [op |-> "seed", failAt |-> failAt]
    /\ seedHistory' = IF db = None THEN seedHistory ELSE Append(seedHistory, failAt)
    /\ query' = EmptyQuery
    /\ UNCHANGED db

List ==
  \E f \in Filters, limit \in Limits :
    /\ response' = list_products(db, store, f, limit)
    /\ query' = IF db = None THEN EmptyQuery ELSE BuildQuery(f)
    /\ request' = [op |-> "list", filter |-> f, limit |-> limit]
    /\ UNCHANGED <<db, store, nextOid, seedHistory>>

GetById ==
  \E product_id \in ProductIds :
    /\ response' = get_product(db, store, product_id)
    /\ request' = [op |-> "get", product_id |-> product_id]
    /\ query' = EmptyQuery
    /\ UNCHANGED <<db, store, nextOid, seedHistory>>

Next == Seed \/ List \/ GetById

Spec == Init /\ [][Next]_vars

\* ------------------------------------------------------ query specification
\* the collection after the seed calls of history h (each entry a failAt)
RECURSIVE StoreAfter(_)
StoreAfter(h) ==
  IF h = <<>>
  THEN [coll |-> <<>>, next |-> 1]
  ELSE LET before == StoreAfter(SubSeq(h, 1, Len(h) - 1))
       IN  seed_products(Some("styleaura"), before.coll, before.next, h[Len(h)])

SeedHistories == UNION {[1..n -> 0..Len(sample_products)] : n \in 0..QuerySeeds}

InitQuery ==
  /\ db = Some("styleaura")
  /\ seedHistory \in SeedHistories
  /\ store = StoreAfter(seedHistory).coll
  /\ nextOid = StoreAfter(seedHistory).next
  /\ query = EmptyQuery
  /\ request = NoRequest
  /\ response = NoResponse

ListOnce ==
  /\ request = NoRequest
  /\ \E f \in AllFilters, limit \in AllLimits :
    /\ response' = list_products(db, store, f, limit)
    /\ query' = IF db = None THEN EmptyQuery ELSE BuildQuery(f)
    /\ request' = [op |-> "list", filter |-> f, limit |-> limit]
    /\ UNCHANGED <<db, store, nextOid, seedHistory>>

SpecQuery == InitQuery /\ [][ListOnce]_vars

\* =================================================================== claims
\* the record without its identifier field
Strip(d) ==
  [title |-> d.title, description |-> d.description, price |-> d.price,
   category |-> d.category, images |-> d.images, sizes |-> d.sizes, colors |-> d.colors,
   rating |-> d.rating, discount_percent |-> d.discount_percent, in_stock |-> d.in_stock,
   tags |-> d.tags]

StoreUnavailable(r) == r.status = 500 /\ r.detail = "Database not configured" /\ r.body = <<>>

InvalidIdentifier(r) == r.status = 400 /\ r.body = <<>>

NotFound(r) == r.status = 404 /\ r.body = <<>>

\* C1: while the store is not configured, list answers with the empty
\* sequence for every filter and limit, seed and getById fail with
\* StoreUnavailable, and nothing has been inserted
C1_Unconfigured ==
  db = None =>
    /\ store = <<>> /\ nextOid = 1
    /\ request.op = "list" => response = Ok(<<>>)
    /\ request.op \in {"seed", "get"} => StoreUnavailable(response)

C1_Witness ==
  /\ db = None
  /\ request.op = "seed"
  /\ StoreUnavailable(response)

\* the 24-digit hexadecimal strings, in either case
C2_HexChars == {"0","1","2","3","4","5","6","7","8","9",
                "a","b","c","d","e","f","A","B","C","D","E","F"}

C2_WellFormed(s) == Len(s) = 24 /\ \A i \in 1..Len(s) : s[i] \in C2_HexChars

C2_Held(s) == \E i \in 1..Len(store) : Str(store[i]._id).val = [k \in 1..Len(s) |-> Lower(s[k])]

\* C2: with the store configured, getById answers InvalidIdentifier for every
\* id string that is not a well-formed identifier, whatever the store holds,
\* and NotFound for every well-formed id that no stored record has
C2_GetByIdFailures ==
  (db /= None /\ request.op = "get") =>
    /\ ~C2_WellFormed(request.product_id) => InvalidIdentifier(response)
    /\ (C2_WellFormed(request.product_id) /\ ~C2_Held(request.product_id)) => NotFound(response)

C2_Witness ==
  /\ db /= None
  /\ request.op = "get"
  /\ store /= <<>>
  /\ request.product_id = <<>>
  /\ InvalidIdentifier(response)

\* a string field of the filter is active when it is given and not empty
C3_Active(o) == o /= None /\ Val(o) /= ""

C3_Text(d, q) ==
  \/ RegexSearch(q, d.title)
  \/ RegexSearch(q, d.description)
  \/ \E t \in Range(d.tags) : RegexSearch(q, t)

\* record d meets every active constraint of filter f, the free-text
\* constraint being the disjunction of the three pattern matches
C3_Satisfies(d, f) ==
  /\ C3_Active(f.category) => d.category = Val(f.category)
  /\ f.min_price /= None => d.price >= Val(f.min_price)
  /\ f.max_price /= None => d.price =< Val(f.max_price)
  /\ C3_Active(f.size) => Val(f.size) \in Range(d.sizes)
  /\ C3_Active(f.color) => Val(f.color) \in Range(d.colors)
  /\ (f.q /= None /\ Val(f.q) /= <<>>) => C3_Text(d, Val(f.q))

C3_Hits(f) == {i \in 1..Len(store) : C3_Satisfies(store[i], f)}

\* C3: every record list returns meets all active constraints of the filter
\* at once, and list returns as many records as meet them all, up to limit
C3_Conjunctive ==
  request.op = "list" =>
    /\ \A i \in 1..Len(response.body) : C3_Satisfies(response.body[i], request.filter)
    /\ Len(response.body) = Min(request.limit, Cardinality(C3_Hits(request.filter)))

\* category, price and free text are all active, a record is returned, and a
\* stored record that meets the free-text constraint alone is left out
C3_Witness ==
  /\ request.op = "list"
  /\ C3_Active(request.filter.category)
  /\ request.filter.min_price /= None
  /\ request.filter.q /= None /\ Val(request.filter.q) /= <<>>
  /\ request.limit > Len(store)
  /\ response.body /= <<>>
  /\ \E i \in 1..Len(store) :
       /\ C3_Text(store[i], Val(request.filter.q))
       /\ \A k \in 1..Len(response.body) : response.body[k]._id /= Str(store[i]._id)

C4_OnlyPrice(f) ==
  /\ f.category = None /\ f.size = None /\ f.color = None /\ f.q = None

C4_InRange(d, f) ==
  /\ f.min_price /= None => Val(f.min_price) =< d.price
  /\ f.max_price /= None => d.price =< Val(f.max_price)

\* C4: the price constraint of the query has exactly the bounds the filter
\* gives (a bound of 0 included), there is no price constraint when the filter
\* gives neither, and both bounds are inclusive
C4_PriceBounds ==
  request.op = "list" =>
    /\ (request.filter.min_price = None /\ request.filter.max_price = None) => query.price = None
    /\ (request.filter.min_price /= None \/ request.filter.max_price /= None) =>
         /\ query.price /= None
         /\ Val(query.price).gte = request.filter.min_price
         /\ Val(query.price).lte = request.filter.max_price
    /\ (C4_OnlyPrice(request.filter) /\ request.limit >= Len(store)) =>
         /\ Len(response.body) = Cardinality({i \in 1..Len(store) : C4_InRange(store[i], request.filter)})
         /\ \A i \in 1..Len(response.body) : C4_InRange(response.body[i], request.filter)

\* a lower bound of 0 alone: the constraint has that lower bound and no upper
\* bound, and records are returned
C4_Witness ==
  /\ request.op = "list"
  /\ request.filter.min_price = Some(0)
  /\ request.filter.max_price = None
  /\ query.price = Some([gte |-> Some(0), lte |-> None])
  /\ response.body /= <<>>

\* text contains q as a substring, compared case-insensitively
C5_Contains(q, text) ==
  \E i \in 1..(Len(text) - Len(q) + 1) :
    \A j \in 1..Len(q) : Lower(q[j]) = Lower(text[i + j - 1])

C5_ContainsAny(q, d) ==
  \/ C5_Contains(q, d.title)
  \/ C5_Contains(q, d.description)
  \/ \E t \in Range(d.tags) : C5_Contains(q, t)

C5_OnlyText(f) ==
  /\ f.category = None /\ f.min_price = None /\ f.max_price = None
  /\ f.size = None /\ f.color = None
  /\ f.q /= None /\ Val(f.q) /= <<>>

\* C5: with the free text q as the only filter, list returns exactly the
\* records whose title, description or one of whose tags contains q as a
\* substring compared case-insensitively, for every q
C5_SubstringMatch ==
  (request.op = "list" /\ C5_OnlyText(request.filter) /\ request.limit >= Len(store)) =>
    /\ \A i \in 1..Len(response.body) : C5_ContainsAny(Val(request.filter.q), response.body[i])
    /\ Len(response.body) =
         Cardinality({i \in 1..Len(store) : C5_ContainsAny(Val(request.filter.q), store[i])})

\* C6 as stated: the query has a constraint for a field exactly when the
\* filter gives that field
C6_PresentIffConstraint ==
  request.op = "list" =>
    /\ query.category /= None <=> request.filter.category /= None
    /\ query.price /= None <=> (request.filter.min_price /= None \/ request.filter.max_price /= None)
    /\ query.sizes /= None <=> request.filter.size /= None
    /\ query.colors /= None <=> request.filter.color /= None
    /\ query.or /= None <=> request.filter.q /= None

C6_NoActiveField(f) ==
  /\ ~C3_Active(f.category) /\ ~C3_Active(f.size) /\ ~C3_Active(f.color)
  /\ f.min_price = None /\ f.max_price = None
  /\ (f.q = None \/ Val(f.q) = <<>>)

\* C6 amended: the query has a constraint for a string field (category, size,
\* color, free text) exactly when the filter gives it and it is not the empty
\* string, and a price constraint exactly when the filter gives a bound; with
\* no such field the query is the empty one and list returns the first limit
\* records of the collection
C6_ActiveIffConstraint ==
  request.op = "list" =>
    /\ query.category /= None <=> C3_Active(request.filter.category)
    /\ query.price /= None <=> (request.filter.min_price /= None \/ request.filter.max_price /= None)
    /\ query.sizes /= None <=> C3_Active(request.filter.size)
    /\ query.colors /= None <=> C3_Active(request.filter.color)
    /\ query.or /= None <=> (request.filter.q /= None /\ Val(request.filter.q) /= <<>>)
    /\ C6_NoActiveField(request.filter) =>
         /\ query = EmptyQuery
         /\ Len(response.body) = Min(request.limit, Len(store))
         /\ \A i \in 1..Len(response.body) : Strip(response.body[i]) = Strip(store[i])

\* every string field is given as the empty string: no constraint, and the
\* whole collection is returned
C6_Witness ==
  /\ request.op = "list"
  /\ request.filter.category = Some("")
  /\ request.filter.size = Some("")
  /\ request.filter.color = Some("")
  /\ request.filter.q = Some(<<>>)
  /\ request.filter.min_price = None /\ request.filter.max_price = None
  /\ query = EmptyQuery
  /\ Len(response.body) = 3

\* C7: every record list or a successful getById returns is a stored record
\* whose identifier field holds, as a string, the lower-case hexadecimal
\* rendering of the identifier the store holds for it; for getById that
\* identifier is the one the request names
C7_StringIds ==
  (request.op \in {"list", "get"} /\ response.status = 200) =>
    \A i \in 1..Len(response.body) :
      /\ response.body[i]._id.type = "str"
      /\ \E k \in 1..Len(store) :
           /\ store[k]._id.type = "ObjectId"
           /\ response.body[i]._id.val = [n \in 1..24 |-> HexDigits[store[k]._id.val[n] + 1]]
           /\ Strip(response.body[i]) = Strip(store[k])
           /\ request.op = "get" =>
                response.body[i]._id.val = [n \in 1..24 |-> Lower(request.product_id[n])]

\* getById found a record under an id written in upper case and returned the
\* identifier in its canonical form
C7_Witness ==
  /\ request.op = "get"
  /\ response.status = 200
  /\ Len(response.body) = 1
  /\ response.body[1]._id.type = "str"
  /\ response.body[1]._id.val /= request.product_id

\* C8: a seed call whose inserts all succeed returns one identifier per sample
\* record, the i-th being the identifier under which the store holds the i-th
\* record (the call's records are the last ones of the collection)
C8_SeedIds ==
  (request.op = "seed" /\ response.status = 200) =>
    /\ Len(response.body) = 3
    /\ Len(response.body) = Len(sample_products)
    /\ Len(store) >= Len(sample_products)
    /\ \A i \in 1..Len(sample_products) :
         store[Len(store) - Len(sample_products) + i] = WithId(sample_products[i], response.body[i])

C8_Witness ==
  /\ request.op = "seed"
  /\ response.status = 200
  /\ Len(response.body) = 3
  /\ Len(store) > 3

C9_Copies(p) == Cardinality({i \in 1..Len(store) : Strip(store[i]) = sample_products[p]})

\* C9: after k seed calls, all successful, the collection holds k copies of
\* each sample record, 3k records in all, under 3k distinct identifiers
C9_NotIdempotent ==
  (db /= None /\ \A n \in 1..Len(seedHistory) : seedHistory[n] = 0) =>
    /\ Len(store) = Len(sample_products) * Len(seedHistory)
    /\ \A p \in 1..Len(sample_products) : C9_Copies(p) = Len(seedHistory)
    /\ Cardinality({store[i]._id : i \in 1..Len(store)}) = Len(store)

C9_Witness ==
  /\ Len(seedHistory) = 2
  /\ \A n \in 1..Len(seedHistory) : seedHistory[n] = 0
  /\ \A p \in 1..Len(sample_products) : C9_Copies(p) = 2

\* C10: a seed call in which the insert of record N fails reports the failure
\* and returns no identifiers; the collection is what it was before the call
\* followed by records 1..N-1, and nothing else
C10_NoRollback ==
  [][(db /= None /\ seedHistory' /= seedHistory /\ request'.failAt >= 1) =>
       /\ response'.status = 500
       /\ response'.body = <<>>
       /\ Len(store') = Len(store) + request'.failAt - 1
       /\ SubSeq(store', 1, Len(store)) = store
       /\ \A i \in 1..(request'.failAt - 1) : Strip(store'[Len(store) + i]) = sample_products[i]]_vars

\* the insert of the third record failed and the first two are in the store
C10_Witness ==
  /\ request.op = "seed"
  /\ request.failAt = 3
  /\ response.status = 500
  /\ Len(store) >= 2
  /\ Strip(store[Len(store)]) = sample_products[2]

====
